---- MODULE Spec2Model ----
(***************************************************************************)
(* A model of the nnsvs inference pipeline: SPSVS (src/nnsvs/svs.py) and   *)
(* the analysis-synthesis driver (src/nnsvs/bin/anasyn.py).                *)
(*                                                                         *)
(* Numbers are fixed point:                                                *)
(*   - a waveform sample n stands for the real value n / Den;              *)
(*   - a V/UV value or threshold v stands for v / 10;                      *)
(*   - a linear aperiodicity value a stands for a / 4 (1.0 is 4);          *)
(*   - a log-f0 value l stands for l * ln 2, so that exp gives 2^l.        *)
(* Every stream is one column wide; a stream is a sequence over frames.    *)
(***************************************************************************)
EXTENDS Integers, Sequences, FiniteSets, TLC

\* ---------------------------------------------------------------- bounds
NFrames == 1
WavLen == 2
Den == 2

\* ------------------------------------------------------ program constants
Int16Max == 32767
Int16Min == -32768
AlreadyScaledThreshold == 10
SampleRate == 48000
DefaultVuvThreshold == 5

\* ------------------------------------------------------------ input sets
Devices == {"cpu", "cuda"}
VocoderTypeInputs == {"world", "pwg", "PWG", "usfgan", "hifigan"}
FeatureTypeInputs == {"world", "melf0", "mel"}
SineF0TypeInputs == {"contf0", "f0", "none"}
VuvThresholds == {3, 5}
SpVals == {0}
Lf0Vals == {1, 2}
VuvVals == {0, 3, 5, 8}
BapVals == {-5, -2, 1}
SampleVals ==
    {-40000 * Den, -20000 * Den, 0, 1, 5 * Den, 20000 * Den, 40000 * Den}
CastModes == {"wrap", "saturate"}

Waves == [1..WavLen -> SampleVals]

FrameVals(ns) ==
    IF ns = 4
    THEN {<<s, l, v, b>> : s \in SpVals, l \in Lf0Vals, v \in VuvVals, b \in BapVals}
    ELSE {<<s, l, v>> : s \in SpVals, l \in Lf0Vals, v \in VuvVals}

FeatSeqs(ns) == [1..NFrames -> FrameVals(ns)]

\* What gen_spsvs_static_features may hand back to svs: only V/UV varies.
SvsFeatSeqs ==
    [1..NFrames -> {<<0, 1, v, -2>> : v \in VuvVals}]

\* ------------------------------------------------------- sequence helpers
RECURSIVE MaxOf(_)
MaxOf(w) ==
    IF Len(w) = 1 THEN w[1]
    ELSE LET m == MaxOf(Tail(w)) IN IF w[1] > m THEN w[1] ELSE m

Abs(n) == IF n < 0 THEN -n ELSE n

AbsMaxOf(w) == MaxOf([i \in 1..Len(w) |-> Abs(w[i])])

RECURSIVE CountOp(_, _)
CountOp(lg, ops) ==
    IF lg = <<>> THEN 0
    ELSE (IF Head(lg).op \in ops THEN 1 ELSE 0) + CountOp(Tail(lg), ops)

\* str.lower() on the strings the model feeds in
Lower(s) ==
    CASE s = "PWG" -> "pwg"
      [] OTHER -> s

\* ------------------------------------------------------------ numerics
\* C conversion of the real value n / d to an integer: toward zero
Trunc(n, d) == IF n >= 0 THEN n \div d ELSE -((-n) \div d)

RECURSIVE Gcd(_, _)
Gcd(a, b) == IF b = 0 THEN a ELSE Gcd(b, a % b)

\* C conversion of the real value (a / m) * b, for m > 0; a / m is reduced to
\* lowest terms first, which keeps the product small and changes no value
ScaleTrunc(a, b, m) ==
    LET g == Gcd(Abs(a), m) IN Trunc((a \div g) * b, m \div g)

Wrap16(v) == ((v - Int16Min) % 65536) + Int16Min

Sat16(v) == IF v > Int16Max THEN Int16Max ELSE IF v < Int16Min THEN Int16Min ELSE v

\* ndarray.astype(np.int16) of an integral value: exact when representable;
\* out of range the C cast is undefined, and the build decides (mode).
AsTypeInt16(v, mode) ==
    IF v >= Int16Min /\ v <= Int16Max THEN v
    ELSE IF mode = "wrap" THEN Wrap16(v) ELSE Sat16(v)

\* np.clip
Clip(x, lo, hi) == IF x < lo THEN lo ELSE IF x > hi THEN hi ELSE x

\* np.exp on a log-f0 value
Exp(l) == 2 ^ l

\* pyworld.decode_aperiodicity of one coded value, per frequency bin (2 bins)
DecodeAp(c) == 4 + c

DecodeAperiodicity(bap) ==
    [t \in 1..Len(bap) |-> <<DecodeAp(bap[t]), DecodeAp(bap[t])>>]

\* pyworld.code_aperiodicity: the coded value is read at the band centre
CodeAp(a) == a - 4

CodeAperiodicity(ap) == [t \in 1..Len(ap) |-> CodeAp(ap[t][2])]

ClipAperiodicity(ap) ==
    [t \in 1..Len(ap) |-> [k \in 1..2 |-> Clip(ap[t][k], 0, 4)]]

\* aperiodicity[mask, 0] = 1.0
FillAperiodicity(ap, mask) ==
    [t \in 1..Len(ap) |-> IF mask[t] THEN <<4, ap[t][2]>> ELSE ap[t]]

\* np.concatenate(streams, axis=-1): per frame, the streams' columns in order
Concatenate(streams) ==
    [t \in 1..Len(streams[1]) |-> [k \in 1..Len(streams) |-> streams[k][t]]]

\* StandardScaler.transform with mean taken at the given columns, unit scale
ScalerMean == <<1, 2, 3, 4>>

Transform(x, cols) ==
    [t \in 1..Len(x) |-> [k \in 1..Len(x[t]) |-> x[t][k] - ScalerMean[cols[k]]]]

\* split_streams with every stream one column wide
SplitStreams(feats, n) ==
    [k \in 1..n |-> [t \in 1..Len(feats) |-> feats[t][k]]]

\* (vuv > vuv_threshold).astype(np.float32)
Binarize(vuv, thr) == [t \in 1..Len(vuv) |-> IF vuv[t] > thr THEN 10 ELSE 0]

\* vuv < vuv_threshold, the boolean index array
BelowThreshold(vuv, thr) == [t \in 1..Len(vuv) |-> vuv[t] < thr]

\* gen_world_params (nnsvs.gen): f0, spectrogram, aperiodicity
GenWorldParams(mgc, lf0, vuv, bap, thr) ==
    [f0 |-> [t \in 1..Len(lf0) |-> IF vuv[t] > thr THEN Exp(lf0[t]) ELSE 0],
     spectrogram |-> [t \in 1..Len(mgc) |-> <<mgc[t] + 100, mgc[t] + 100>>],
     aperiodicity |-> ClipAperiodicity(DecodeAperiodicity(bap))]

\* ------------------------------------------------------- post-processing
\* SPSVS.post_process after bandpass_filter; w is the filtered signal
SvsPostProcess(w, mode) ==
    IF MaxOf(w) > AlreadyScaledThreshold * Den
    THEN [i \in 1..Len(w) |-> AsTypeInt16(Trunc(w[i], Den), mode)]
    ELSE [i \in 1..Len(w) |->
            AsTypeInt16(Trunc(Clip(w[i], -Den, Den) * Int16Max, Den), mode)]

\* anasyn.post_process after bandpass_filter; w is the filtered signal
AnasynPostProcess(w, mode) ==
    LET m == AbsMaxOf(w) IN
    IF MaxOf(w) > AlreadyScaledThreshold * Den
    THEN IF m > Int16Max * Den
         THEN [i \in 1..Len(w) |-> AsTypeInt16(Trunc(w[i], m), mode)]
         ELSE [i \in 1..Len(w) |-> AsTypeInt16(Trunc(w[i], Den), mode)]
    ELSE IF m > Den
         THEN [i \in 1..Len(w) |-> AsTypeInt16(ScaleTrunc(w[i], Int16Max, m), mode)]
         ELSE [i \in 1..Len(w) |-> AsTypeInt16(ScaleTrunc(w[i], Int16Max, Den), mode)]

\* ------------------------------------------------------------------ state
VARIABLES
    device,         \* SPSVS.device
    modelDev,       \* the device each loaded model of the SPSVS instance is on
    vocoderLoaded,  \* SPSVS.vocoder is not None
    pc,             \* position of the running call ("idle": none)
    args,           \* the running call's arguments
    locals,         \* the running call's local variables
    bound,          \* the names of the locals assigned so far
    log,            \* the collaborators invoked by the running call, in order
    ret             \* what the call returned or raised

vars == <<device, modelDev, vocoderLoaded, pc, args, locals, bound, log, ret>>

NoArgs ==
    [entry |-> "none", requested |-> "world", vocoder_type |-> "world",
     feature_type |-> "world", return_states |-> FALSE, vuv_threshold |-> DefaultVuvThreshold,
     nStreams |-> 4, vocoderGiven |-> FALSE, feats |-> <<>>,
     sine_f0_type |-> "-"]

NoLocals ==
    [mgc |-> <<>>, mel |-> <<>>, lf0 |-> <<>>, vuv |-> <<>>, bap |-> <<>>,
     f0 |-> <<>>, spectrogram |-> <<>>, aperiodicity |-> <<>>,
     voc_inp |-> <<>>, aux_feats |-> <<>>, contf0 |-> <<>>, f0_inp |-> <<>>,
     fill_mask |-> <<>>, gate_mask |-> <<>>, filtered |-> <<>>]

StateKeys == {"mgc", "lf0", "vuv", "bap", "f0", "spectrogram", "aperiodicity"}

NoStates == [k \in StateKeys |-> <<>>]

NoRet ==
    [kind |-> "none", error |-> "", wav |-> <<>>, sr |-> 0,
     size |-> 0, stateKeys |-> {}, states |-> NoStates, post |-> FALSE]

Raise(err) == [NoRet EXCEPT !.kind = "error", !.error = err]

\* One invocation of a collaborator: the labels it read, the device of the
\* input it was given and the device of the model it ran ("-": none).
Invocation(op, labels, inDev, mDev) ==
    [op |-> op, labels |-> labels, inputDev |-> inDev, modelDev |-> mDev]

Plain(op) == Invocation(op, "-", "-", "-")

\* SPSVS.__init__(model_dir, device): every model is loaded to device; the
\* vocoder exists when model_dir holds vocoder_model.yaml.
Init ==
    /\ device \in Devices
    /\ modelDev = [timelag |-> device, duration |-> device,
                   acoustic |-> device, vocoder |-> device]
    /\ vocoderLoaded \in BOOLEAN
    /\ pc = "idle"
    /\ args = NoArgs
    /\ locals = NoLocals
    /\ bound = {}
    /\ log = <<>>
    /\ ret = NoRet

\* ------------------------------------------------------------- SPSVS
\* the models set_device moves
MovedModels == {"duration", "acoustic"}

SetDevice(d) ==
    /\ pc = "idle"
    /\ device' = d
    /\ modelDev' = [m \in DOMAIN modelDev |->
                      IF m \in MovedModels THEN d ELSE modelDev[m]]
    /\ UNCHANGED <<vocoderLoaded, pc, args, locals, bound, log, ret>>

\* svs, lines 191-199: the checks made before anything runs
SvsUnknownType(vt) == vt \notin {"world", "pwg"}

\* the check of line 195 left out: the call goes on without a vocoder
SvsVocoderMissingDropped(vt, loaded) == FALSE

SvsVocoderMissing(vt, loaded) == vt = "pwg" /\ ~loaded

Svs(vocoder_type, return_states) ==
    /\ pc = "idle"
    /\ args' = [NoArgs EXCEPT !.entry = "svs",
                              !.requested = vocoder_type,
                              !.vocoder_type = Lower(vocoder_type),
                              !.return_states = return_states]
    /\ locals' = NoLocals
    /\ bound' = {}
    /\ log' = <<>>
    /\ IF SvsUnknownType(Lower(vocoder_type))
       THEN /\ pc' = "done"
            /\ ret' = Raise("ValueError: Unknown vocoder type")
       ELSE IF SvsVocoderMissing(Lower(vocoder_type), vocoderLoaded)
       THEN /\ pc' = "done"
            /\ ret' = Raise("ValueError: Pre-trained vocodr model is not found")
       ELSE /\ pc' = "timelag"
            /\ ret' = NoRet
    /\ UNCHANGED <<device, modelDev, vocoderLoaded>>

\* A predictor is given inputs placed on self.device; torch refuses to run a
\* model on inputs of another device.
Predict(op, labels, model, next) ==
    /\ log' = Append(log, Invocation(op, labels, device, modelDev[model]))
    /\ IF modelDev[model] = device
       THEN pc' = next /\ ret' = ret
       ELSE pc' = "done" /\ ret' = Raise("RuntimeError: device mismatch")

TimelagLabels == "labels"

DurationLabels == "labels"

\* acoustic prediction reading the labels it was called with
AcousticLabelsOriginal == "labels"

AcousticLabels == "duration_modified_labels"

StaticLabels == "duration_modified_labels"

SvsTimelag ==
    /\ pc = "timelag"
    /\ Predict("predict_timelag", TimelagLabels, "timelag", "duration")
    /\ UNCHANGED <<device, modelDev, vocoderLoaded, args, locals, bound>>

SvsDuration ==
    /\ pc = "duration"
    /\ Predict("predict_duration", DurationLabels, "duration", "postprocess_duration")
    /\ UNCHANGED <<device, modelDev, vocoderLoaded, args, locals, bound>>

SvsPostprocessDuration ==
    /\ pc = "postprocess_duration"
    /\ log' = Append(log, Plain("postprocess_duration"))
    /\ bound' = bound \cup {"duration_modified_labels"}
    /\ pc' = "acoustic"
    /\ UNCHANGED <<device, modelDev, vocoderLoaded, args, locals, ret>>

SvsAcoustic ==
    /\ pc = "acoustic"
    /\ Predict("predict_acoustic", AcousticLabels, "acoustic", "static")
    /\ UNCHANGED <<device, modelDev, vocoderLoaded, args, locals, bound>>

SvsStatic ==
    /\ pc = "static"
    /\ \E feats \in SvsFeatSeqs :
         LET s == SplitStreams(feats, 4) IN
         locals' = [locals EXCEPT !.mgc = s[1], !.lf0 = s[2],
                                  !.vuv = s[3], !.bap = s[4]]
    /\ bound' = bound \cup {"mgc", "lf0", "vuv", "bap"}
    /\ log' = Append(log, Invocation("gen_spsvs_static_features",
                                     StaticLabels, "-", "-"))
    /\ pc' = "synth"
    /\ UNCHANGED <<device, modelDev, vocoderLoaded, args, ret>>

\* svs, lines 269 and 281: the branch the vocoder type selects
SvsBranch(vt) ==
    IF vt = "world" THEN "world" ELSE IF vt = "pwg" THEN "pwg" ELSE "none"

SvsWorld ==
    /\ pc = "synth"
    /\ SvsBranch(args.vocoder_type) = "world"
    /\ LET p == GenWorldParams(locals.mgc, locals.lf0, locals.vuv, locals.bap,
                               DefaultVuvThreshold) IN
       locals' = [locals EXCEPT !.f0 = p.f0, !.spectrogram = p.spectrogram,
                                !.aperiodicity = p.aperiodicity]
    /\ bound' = bound \cup {"f0", "spectrogram", "aperiodicity", "wav"}
    /\ log' = log \o <<Plain("gen_world_params"), Plain("pyworld.synthesize")>>
    /\ pc' = "post"
    /\ UNCHANGED <<device, modelDev, vocoderLoaded, args, ret>>

SvsPwg ==
    /\ pc = "synth"
    /\ SvsBranch(args.vocoder_type) = "pwg"
    /\ vocoderLoaded
    /\ locals' = [locals EXCEPT !.voc_inp =
          Transform(Concatenate(<<locals.mgc, locals.lf0, locals.vuv, locals.bap>>),
                    <<1, 2, 3, 4>>)]
    /\ log' = Append(log, Invocation("vocoder.inference(voc_inp)", "-",
                                     device, modelDev.vocoder))
    /\ IF modelDev.vocoder = device
       THEN pc' = "post" /\ ret' = ret /\ bound' = bound \cup {"voc_inp", "wav"}
       ELSE /\ pc' = "done"
            /\ ret' = Raise("RuntimeError: device mismatch")
            /\ bound' = bound \cup {"voc_inp"}
    /\ UNCHANGED <<device, modelDev, vocoderLoaded, args>>

\* the vocoder parameters reported for either variant
SvsStateKeysAlways(vt, return_states) ==
    IF ~return_states THEN {} ELSE StateKeys

\* svs, lines 295-313: what is handed back
SvsStateKeys(vt, return_states) ==
    IF ~return_states THEN {}
    ELSE IF vt = "world" THEN StateKeys
    ELSE {"mgc", "lf0", "vuv", "bap"}

SvsResultWav(filtered, mode, return_states) == SvsPostProcess(filtered, mode)

SvsPostProcessAndReturn ==
    /\ pc = "post"
    /\ \E filtered \in Waves, mode \in CastModes :
         /\ locals' = [locals EXCEPT !.filtered = filtered]
         /\ LET keys == SvsStateKeys(args.vocoder_type, args.return_states) IN
            ret' = [kind |-> "ok", error |-> "",
                    wav |-> SvsResultWav(filtered, mode, args.return_states),
                    sr |-> SampleRate,
                    size |-> IF args.return_states THEN 3 ELSE 2,
                    stateKeys |-> keys,
                    states |-> [k \in StateKeys |->
                                  IF k \in keys THEN locals[k] ELSE <<>>],
                    post |-> TRUE]
    /\ log' = Append(log, Plain("post_process"))
    /\ pc' = "done"
    /\ UNCHANGED <<device, modelDev, vocoderLoaded, args, bound>>

\* ------------------------------------------------------------- anasyn
\* anasyn, lines 37-53: split the features and name the streams
Anasyn(feature_type, vocoder_type, vuv_threshold, vocoderGiven, nStreams, feats) ==
    /\ pc = "idle"
    /\ args' = [entry |-> "anasyn", requested |-> vocoder_type,
                vocoder_type |-> vocoder_type, feature_type |-> feature_type, return_states |-> FALSE,
                vuv_threshold |-> vuv_threshold, nStreams |-> nStreams,
                vocoderGiven |-> vocoderGiven, feats |-> feats,
                sine_f0_type |-> "-"]
    /\ log' = <<>>
    /\ LET streams == SplitStreams(feats, nStreams)
           mel3 == SplitStreams(feats, 3)
       IN
       IF feature_type = "world"
       THEN IF Len(streams) = 4
            THEN /\ locals' = [NoLocals EXCEPT !.mgc = streams[1], !.lf0 = streams[2],
                                               !.vuv = streams[3], !.bap = streams[4]]
                 /\ bound' = {"mgc", "lf0", "vuv", "bap"}
                 /\ pc' = "a_synth"
                 /\ ret' = NoRet
            ELSE /\ locals' = NoLocals
                 /\ bound' = {}
                 /\ pc' = "done"
                 /\ ret' = Raise("AssertionError")
       ELSE IF feature_type = "melf0"
       THEN /\ locals' = [NoLocals EXCEPT !.mel = mel3[1], !.lf0 = mel3[2],
                                          !.vuv = mel3[3]]
            /\ bound' = {"mel", "lf0", "vuv"}
            /\ pc' = "a_synth"
            /\ ret' = NoRet
       ELSE /\ locals' = NoLocals
            /\ bound' = {}
            /\ pc' = "done"
            /\ ret' = Raise("ValueError: Unknown feature type")
    /\ UNCHANGED <<device, modelDev, vocoderLoaded>>

\* the excitation variant sent down the plain neural branch
AnasynBranchMerged(vt) ==
    IF vt = "world" THEN "world"
    ELSE IF vt \in {"pwg", "usfgan"} THEN "pwg"
    ELSE "none"

\* anasyn, lines 56, 73 and 97: the branch the vocoder type selects
AnasynBranch(vt) ==
    IF vt = "world" THEN "world"
    ELSE IF vt = "pwg" THEN "pwg"
    ELSE IF vt = "usfgan" THEN "usfgan"
    ELSE "none"

\* anasyn, lines 56-72
AnasynWorld ==
    /\ pc = "a_synth"
    /\ AnasynBranch(args.vocoder_type) = "world"
    /\ IF {"mgc", "lf0", "vuv", "bap"} \subseteq bound
       THEN /\ LET p == GenWorldParams(locals.mgc, locals.lf0, locals.vuv,
                                       locals.bap, args.vuv_threshold) IN
               locals' = [locals EXCEPT !.f0 = p.f0,
                                        !.spectrogram = p.spectrogram,
                                        !.aperiodicity = p.aperiodicity]
            /\ bound' = bound \cup {"f0", "spectrogram", "aperiodicity", "wav"}
            /\ log' = log \o <<Plain("gen_world_params"), Plain("pyworld.synthesize")>>
            /\ pc' = "a_return"
            /\ ret' = ret
       ELSE /\ pc' = "done"
            /\ ret' = Raise("UnboundLocalError")
            /\ UNCHANGED <<locals, bound, log>>
    /\ UNCHANGED <<device, modelDev, vocoderLoaded, args>>

\* anasyn, lines 73-96
AnasynPwg ==
    /\ pc = "a_synth"
    /\ AnasynBranch(args.vocoder_type) = "pwg"
    /\ LET vuv == Binarize(locals.vuv, args.vuv_threshold)
           inp == IF args.feature_type = "world"
                  THEN Transform(Concatenate(<<locals.mgc, locals.lf0, vuv, locals.bap>>),
                                 <<1, 2, 3, 4>>)
                  ELSE Transform(Concatenate(<<locals.mel, locals.lf0, vuv>>),
                                 <<1, 2, 3>>)
       IN
       IF args.vocoderGiven
       THEN /\ locals' = [locals EXCEPT !.vuv = vuv, !.voc_inp = inp]
            /\ bound' = bound \cup {"voc_inp", "wav"}
            /\ log' = Append(log, Plain("vocoder.inference(voc_inp)"))
            /\ pc' = "a_return"
            /\ ret' = ret
       ELSE /\ locals' = [locals EXCEPT !.vuv = vuv]
            /\ pc' = "done"
            /\ ret' = Raise("AttributeError")
            /\ UNCHANGED <<bound, log>>
    /\ UNCHANGED <<device, modelDev, vocoderLoaded, args>>

\* anasyn, lines 125-130: the excitation signal
GateMask(vuv, thr) == BelowThreshold(vuv, thr)

GatedF0(contf0, mask) == [t \in 1..Len(contf0) |-> IF mask[t] THEN 0 ELSE contf0[t]]

\* anasyn, line 104: the frames whose aperiodicity is filled with ones
FillMask(vuv, thr) == BelowThreshold(vuv, thr)

\* the clamp of line 106 left out
ClampedAperiodicityNoClip(bap, mask) ==
    FillAperiodicity(DecodeAperiodicity(bap), mask)

\* anasyn, lines 100-110: decode, fill, clamp, encode
ClampedAperiodicity(bap, mask) ==
    ClipAperiodicity(FillAperiodicity(DecodeAperiodicity(bap), mask))

\* anasyn, line 114: the streams the auxiliary features are built from
AuxStreams(mgc, oldBap, newBap) == <<mgc, newBap>>

\* anasyn, lines 97-131
AnasynUsfgan(sine_f0_type) ==
    /\ pc = "a_synth"
    /\ AnasynBranch(args.vocoder_type) = "usfgan"
    /\ LET thr == args.vuv_threshold
           world == args.feature_type = "world"
           fill == FillMask(locals.vuv, thr)
           ap == ClampedAperiodicity(locals.bap, fill)
           bap == CodeAperiodicity(ap)
           vuv == IF world THEN locals.vuv ELSE Binarize(locals.vuv, thr)
           aux == IF world
                  THEN Transform(Concatenate(AuxStreams(locals.mgc, locals.bap, bap)),
                                 <<1, 4>>)
                  ELSE Transform(Concatenate(<<locals.mel>>), <<1>>)
           early == IF world
                    THEN [locals EXCEPT !.aperiodicity = ap, !.fill_mask = fill,
                                        !.bap = bap]
                    ELSE [locals EXCEPT !.vuv = vuv]
           earlyBound == bound \cup (IF world THEN {"aperiodicity", "fill_mask"} ELSE {})
           gate == GateMask(vuv, thr)
           contf0 == [t \in 1..Len(locals.lf0) |-> Exp(locals.lf0[t])]
       IN
       IF ~args.vocoderGiven
       THEN /\ locals' = early
            /\ bound' = earlyBound
            /\ log' = log
            /\ pc' = "done"
            /\ ret' = Raise("AttributeError")
       ELSE IF sine_f0_type = "contf0"
       THEN /\ locals' = [early EXCEPT !.aux_feats = aux, !.contf0 = contf0,
                                       !.f0_inp = contf0]
            /\ bound' = earlyBound \cup {"aux_feats", "contf0", "f0_inp", "wav"}
            /\ log' = Append(log, Plain("vocoder.inference(f0_inp, aux_feats)"))
            /\ pc' = "a_return"
            /\ ret' = ret
       ELSE IF sine_f0_type = "f0"
       THEN /\ locals' = [early EXCEPT !.aux_feats = aux,
                                       !.contf0 = GatedF0(contf0, gate),
                                       !.f0_inp = GatedF0(contf0, gate),
                                       !.gate_mask = gate]
            /\ bound' = earlyBound \cup
                          {"aux_feats", "contf0", "f0_inp", "gate_mask", "wav"}
            /\ log' = Append(log, Plain("vocoder.inference(f0_inp, aux_feats)"))
            /\ pc' = "a_return"
            /\ ret' = ret
       ELSE /\ locals' = [early EXCEPT !.aux_feats = aux, !.contf0 = contf0]
            /\ bound' = earlyBound \cup {"aux_feats", "contf0"}
            /\ log' = log
            /\ pc' = "done"
            /\ ret' = Raise("UnboundLocalError")
    \* line 126 reads the setting from the vocoder's configuration
    /\ args' = [args EXCEPT !.sine_f0_type =
                   IF args.vocoderGiven THEN sine_f0_type ELSE "-"]
    /\ UNCHANGED <<device, modelDev, vocoderLoaded>>

\* anasyn, lines 56-131 when no branch matches: nothing runs
AnasynNoBranch ==
    /\ pc = "a_synth"
    /\ AnasynBranch(args.vocoder_type) = "none"
    /\ pc' = "a_return"
    /\ UNCHANGED <<device, modelDev, vocoderLoaded, args, locals, bound, log, ret>>

\* anasyn, line 133: return wav
AnasynReturn ==
    /\ pc = "a_return"
    /\ IF "wav" \in bound
       THEN ret' = [NoRet EXCEPT !.kind = "ok", !.size = 1]
       ELSE ret' = Raise("UnboundLocalError")
    /\ pc' = "done"
    /\ UNCHANGED <<device, modelDev, vocoderLoaded, args, locals, bound, log>>

\* post_process of anasyn.py, as my_app calls it on a synthesized waveform
\* (line 264); bandpass_filter hands back the filtered signal
PostProcess ==
    /\ pc = "idle"
    /\ \E filtered \in Waves, mode \in CastModes :
         /\ locals' = [NoLocals EXCEPT !.filtered = filtered]
         /\ ret' = [NoRet EXCEPT !.kind = "ok", !.size = 1, !.post = TRUE,
                                 !.wav = AnasynPostProcess(filtered, mode)]
    /\ args' = [NoArgs EXCEPT !.entry = "post_process"]
    /\ bound' = {"wav"}
    /\ log' = <<Plain("post_process")>>
    /\ pc' = "done"
    /\ UNCHANGED <<device, modelDev, vocoderLoaded>>

\* the caller takes the result; the call's frame is gone
Finish ==
    /\ pc = "done"
    /\ pc' = "idle"
    /\ args' = NoArgs
    /\ locals' = NoLocals
    /\ bound' = {}
    /\ log' = <<>>
    /\ ret' = NoRet
    /\ UNCHANGED <<device, modelDev, vocoderLoaded>>

Next ==
    \/ pc = "idle" /\ \E d \in Devices : SetDevice(d)
    \/ pc = "idle" /\ \E vt \in VocoderTypeInputs, rs \in BOOLEAN : Svs(vt, rs)
    \/ SvsTimelag
    \/ SvsDuration
    \/ SvsPostprocessDuration
    \/ SvsAcoustic
    \/ SvsStatic
    \/ SvsWorld
    \/ SvsPwg
    \/ SvsPostProcessAndReturn
    \/ pc = "idle" /\
         \E ft \in FeatureTypeInputs, vt \in VocoderTypeInputs,
            thr \in VuvThresholds, voc \in BOOLEAN, ns \in {3, 4} :
           \E feats \in FeatSeqs(ns) : Anasyn(ft, vt, thr, voc, ns, feats)
    \/ AnasynWorld
    \/ AnasynPwg
    \/ pc = "a_synth" /\ \E sine \in SineF0TypeInputs : AnasynUsfgan(sine)
    \/ AnasynNoBranch
    \/ AnasynReturn
    \/ PostProcess
    \/ Finish

Spec == Init /\ [][Next]_vars

\* ================================================================ claims
Ops(lg) == [i \in 1..Len(lg) |-> lg[i].op]

Predictors == {"predict_timelag", "predict_duration", "predict_acoustic"}

BackEnds ==
    {"pyworld.synthesize", "vocoder.inference(voc_inp)",
     "vocoder.inference(f0_inp, aux_feats)"}

ModelOps == Predictors \cup BackEnds \cup {"gen_world_params"}

SvsSucceeded == args.entry = "svs" /\ pc = "done" /\ ret.kind = "ok"

AnasynSucceeded == args.entry = "anasyn" /\ pc = "done" /\ ret.kind = "ok"

\* C1: svs asked for the neural vocoder ('pwg' in any letter case) on an
\* instance without a vocoder ends in an error, returns no waveform, and
\* invokes nothing on the way: no predictor, no vocoder-parameter
\* generation, no WORLD synthesis.
C1_NoVocoderNoFallback ==
    (args.entry = "svs" /\ Lower(args.requested) = "pwg" /\ ~vocoderLoaded) =>
        /\ pc = "done"
        /\ ret.kind = "error"
        /\ ret.wav = <<>>
        /\ log = <<>>

C1_Witness ==
    /\ args.entry = "svs"
    /\ args.requested = "PWG"
    /\ ~vocoderLoaded
    /\ pc = "done"
    /\ ret.error = "ValueError: Pre-trained vocodr model is not found"

C2_UnknownRequested ==
    \/ args.entry = "svs" /\ Lower(args.requested) \notin {"world", "pwg"}
    \/ /\ args.entry = "anasyn"
       /\ args.feature_type = "world" => args.nStreams = 4
       /\ \/ args.feature_type \notin {"world", "melf0"}
          \/ args.requested \notin {"world", "pwg", "usfgan"}

\* C2: a call of svs or anasyn with an unrecognized feature type or vocoder
\* type (on features whose stream layout fits the feature type) ends with the
\* unknown-variant error, and no model has been invoked.
C2_UnknownVariantFailsFirst ==
    (pc = "done" /\ C2_UnknownRequested) =>
        /\ ret.kind = "error"
        /\ ret.error \in {"ValueError: Unknown vocoder type",
                          "ValueError: Unknown feature type"}
        /\ CountOp(log, ModelOps) = 0

\* C3: after either post-processor a filtered sample above 32767 comes out
\* at the positive bound 32767 and one below -32768 at negative full scale
\* (-32768, or -32767 where the unit range was scaled): saturation, never a
\* wrapped or collapsed value.
C3_HardClipBeforeCast ==
    (pc = "done" /\ ret.kind = "ok" /\ ret.post) =>
        \A i \in 1..Len(ret.wav) :
            /\ locals.filtered[i] > Int16Max * Den => ret.wav[i] = Int16Max
            /\ locals.filtered[i] < Int16Min * Den => ret.wav[i] <= -Int16Max

\* C4: the post-processor branches on the largest absolute value of the
\* filtered signal: above 10 (and within the 16-bit range) every sample is
\* only cast, and a unit-range signal is multiplied by 32767 and cast.
C4_BranchOnMagnitude ==
    (pc = "done" /\ ret.kind = "ok" /\ ret.post) =>
        LET m == AbsMaxOf(locals.filtered) IN
        /\ (m > AlreadyScaledThreshold * Den /\ m <= Int16Max * Den) =>
              \A i \in 1..Len(ret.wav) :
                  ret.wav[i] = Trunc(locals.filtered[i], Den)
        /\ m <= Den =>
              \A i \in 1..Len(ret.wav) :
                  ret.wav[i] = Trunc(locals.filtered[i] * Int16Max, Den)

C5_ExpectedStages(vt) ==
    <<"predict_timelag", "predict_duration", "postprocess_duration",
      "predict_acoustic", "gen_spsvs_static_features">>
    \o (IF vt = "world" THEN <<"gen_world_params", "pyworld.synthesize">>
        ELSE <<"vocoder.inference(voc_inp)">>)
    \o <<"post_process">>

\* C5: a successful svs call has run, once each and in this order: time-lag,
\* duration, duration post-processing, acoustic prediction, static features,
\* vocoder parameters (world only), synthesis, post-processing; the first two
\* read the original labels, acoustic prediction and static features the
\* duration-modified ones; and a running call has run a prefix of that.
C5_StageOrder ==
    args.entry = "svs" =>
        LET want == C5_ExpectedStages(args.vocoder_type) IN
        /\ Len(log) <= Len(want)
        /\ Ops(log) = SubSeq(want, 1, Len(log))
        /\ SvsSucceeded => Len(log) = Len(want)
        /\ Len(log) >= 1 => log[1].labels = "labels"
        /\ Len(log) >= 2 => log[2].labels = "labels"
        /\ Len(log) >= 4 => log[4].labels = "duration_modified_labels"
        /\ Len(log) >= 5 => log[5].labels = "duration_modified_labels"

C5_Witness ==
    /\ SvsSucceeded
    /\ args.vocoder_type = "world"
    /\ Len(log) = 8
    /\ log[8].op = "post_process"

C6_BackEndOf(vt) ==
    CASE vt = "world" -> "pyworld.synthesize"
      [] vt = "pwg" -> "vocoder.inference(voc_inp)"
      [] vt = "usfgan" -> "vocoder.inference(f0_inp, aux_feats)"
      [] OTHER -> "none"

\* C6: a successful call of svs or anasyn has invoked exactly one back end,
\* once, the one its vocoder type names, and gen_world_params exactly when
\* that type is world; no call ever invokes two back ends.
C6_OneBackEnd ==
    /\ CountOp(log, BackEnds) <= 1
    /\ (SvsSucceeded \/ AnasynSucceeded) =>
        /\ CountOp(log, BackEnds) = 1
        /\ CountOp(log, {C6_BackEndOf(args.vocoder_type)}) = 1
        /\ CountOp(log, {"gen_world_params"}) =
              (IF args.vocoder_type = "world" THEN 1 ELSE 0)

C6_Witness ==
    /\ AnasynSucceeded
    /\ args.vocoder_type = "usfgan"
    /\ Ops(log) = <<"vocoder.inference(f0_inp, aux_feats)">>

C7_UsfganWorld ==
    /\ args.entry = "anasyn"
    /\ args.vocoder_type = "usfgan"
    /\ args.feature_type = "world"
    /\ "aperiodicity" \in bound

\* C7: in anasyn with usfgan on world features, the aperiodicity that is
\* re-encoded lies within [0, 1] in every frame and bin, the bap stream is its
\* encoding, and the auxiliary features carry that re-encoded bap (not the
\* bap stream the call was given).
C7_ClampBeforeEncode ==
    C7_UsfganWorld =>
        /\ \A t \in 1..Len(locals.aperiodicity) :
             \A k \in 1..Len(locals.aperiodicity[t]) :
                locals.aperiodicity[t][k] >= 0 /\ locals.aperiodicity[t][k] <= 4
        /\ \A t \in 1..Len(locals.bap) :
             /\ locals.bap[t] = CodeAp(locals.aperiodicity[t][2])
             /\ locals.bap[t] >= CodeAp(0) /\ locals.bap[t] <= CodeAp(4)
        /\ "aux_feats" \in bound =>
             \A t \in 1..Len(locals.aux_feats) :
                locals.aux_feats[t] =
                    <<locals.mgc[t] - ScalerMean[1], locals.bap[t] - ScalerMean[4]>>

C7_Witness ==
    /\ C7_UsfganWorld
    /\ "aux_feats" \in bound
    /\ \E t \in 1..Len(args.feats) :
         /\ DecodeAp(args.feats[t][4]) > 4
         /\ locals.aux_feats[t][2] # args.feats[t][4] - ScalerMean[4]

\* C8: a successful svs call returns the post-processed waveform and the
\* sample rate whatever return_states is; with return_states it returns a
\* third value holding the four static streams of the call, and the vocoder
\* parameters exactly when the variant is world; without, the pair only.
C8_ReturnStates ==
    SvsSucceeded =>
        /\ ret.wav \in {SvsPostProcess(locals.filtered, m) : m \in CastModes}
        /\ ret.sr = SampleRate
        /\ args.return_states =>
             /\ ret.size = 3
             /\ ret.stateKeys =
                  {"mgc", "lf0", "vuv", "bap"} \cup
                  (IF args.vocoder_type = "world"
                   THEN {"f0", "spectrogram", "aperiodicity"} ELSE {})
             /\ ret.stateKeys \subseteq bound
             /\ \A k \in ret.stateKeys : ret.states[k] = locals[k]
        /\ ~args.return_states => ret.size = 2 /\ ret.stateKeys = {}

C8_Witness ==
    /\ SvsSucceeded
    /\ args.return_states
    /\ args.vocoder_type = "pwg"
    /\ ret.stateKeys = {"mgc", "lf0", "vuv", "bap"}
    /\ ret.states.vuv = locals.vuv

C9_Voiced(t) == args.feats[t][3] > args.vuv_threshold

\* C9: in a completed anasyn synthesis every voiced/unvoiced decision is
\* "voiced exactly when V/UV > threshold": the binarized V/UV, the frames
\* whose f0 is zeroed and the frames whose aperiodicity is filled with ones.
C9_OneVoicingRule ==
    (args.entry = "anasyn" /\ "wav" \in bound) =>
        \A t \in 1..Len(args.feats) :
            /\ "voc_inp" \in bound =>
                 locals.vuv[t] = (IF C9_Voiced(t) THEN 10 ELSE 0)
            /\ "f0" \in bound => ((locals.f0[t] = 0) <=> ~C9_Voiced(t))
            /\ "gate_mask" \in bound => (locals.gate_mask[t] <=> ~C9_Voiced(t))
            /\ "fill_mask" \in bound => (locals.fill_mask[t] <=> ~C9_Voiced(t))

\* C10: self.device is the device last set, every model svs invokes is on
\* it, and no invocation was given an input on another device than its
\* model's.
C10_ModelsFollowDevice ==
    /\ \A m \in {"timelag", "duration", "acoustic"} : modelDev[m] = device
    /\ vocoderLoaded => modelDev.vocoder = device
    /\ \A i \in 1..Len(log) : log[i].inputDev = log[i].modelDev

\* the static streams of frame t the running call started from
C11_StaticFrame(t) ==
    IF args.entry = "svs"
    THEN <<locals.mgc[t], locals.lf0[t], locals.vuv[t], locals.bap[t]>>
    ELSE args.feats[t]

C11_Binary(v) == IF v > args.vuv_threshold THEN 10 ELSE 0

\* C11: whenever svs or anasyn has invoked the neural vocoder (pwg), its
\* input is, per frame, the scaler transform of [mgc, lf0, vuv, bap] (or
\* [mel, lf0, vuv]) with the V/UV column thresholded to 0 or 1; so the input
\* is the same function of the static streams in both entry points.
C11_VocoderInput ==
    (CountOp(log, {"vocoder.inference(voc_inp)"}) = 1 /\ "voc_inp" \in bound) =>
        \A t \in 1..Len(locals.voc_inp) :
            LET f == C11_StaticFrame(t) IN
            /\ locals.voc_inp[t][3] + ScalerMean[3] \in {0, 10}
            /\ locals.voc_inp[t] =
                 IF args.feature_type = "world"
                 THEN <<f[1] - ScalerMean[1], f[2] - ScalerMean[2],
                        C11_Binary(f[3]) - ScalerMean[3], f[4] - ScalerMean[4]>>
                 ELSE <<f[1] - ScalerMean[1], f[2] - ScalerMean[2],
                        C11_Binary(f[3]) - ScalerMean[3]>>

\* the locals the branch of vocoder type vt reads, for feature type ft
C12_Consumed(ft, vt) ==
    (IF vt = "pwg" THEN {"voc_inp"}
     ELSE IF vt = "usfgan" THEN {"f0_inp", "aux_feats"}
     ELSE {})
    \cup
    (IF ft = "melf0" /\ vt # "world" THEN {"mel", "lf0", "vuv"}
     ELSE {"mgc", "lf0", "vuv", "bap"})

\* a recognized combination, called as the claim supposes, on features whose
\* layout fits the feature type
C12_Recognized ==
    /\ args.entry = "anasyn"
    /\ args.feature_type \in {"world", "melf0"}
    /\ args.vocoder_type \in {"world", "pwg", "usfgan"}
    /\ args.vocoder_type # "world" => args.vocoderGiven
    /\ args.vocoder_type = "usfgan" => args.sine_f0_type \in {"contf0", "f0"}
    /\ args.feature_type = "world" => args.nStreams = 4

\* C12: for every recognized feature type and vocoder type of anasyn, with a
\* vocoder given for the neural types and sine_f0_type contf0 or f0, once the
\* selected branch is over every stream it consumed was assigned and the
\* call returns a waveform, never an error.
C12_EveryCombinationSynthesizes ==
    (C12_Recognized /\ pc \in {"a_return", "done"}) =>
        /\ C12_Consumed(args.feature_type, args.vocoder_type) \subseteq bound
        /\ "wav" \in bound
        /\ pc = "done" => ret.kind = "ok"

====
